---- MODULE Spec2Model ----
(***************************************************************************)
(* Constraint propagators of the CSP solver (A2/csp/propagators.py):       *)
(* prop_BT, prop_FC/FCCheck and prop_GAC/GAC, run by a backtracking driver *)
(* over small CSP instances.  Variable, Constraint and CSP (cspbase) and   *)
(* the driver are modelled from the specification's data model and         *)
(* interface sections.  Two further specifications follow the propagators: *)
(* SpecCaged, the puzzle compiler caged_csp_model (A2/csp/puzzle_csp.py),  *)
(* and SpecEdge, the wall test edge_without_storage (A1/solution.py).      *)
(***************************************************************************)
EXTENDS Integers, Sequences, FiniteSets, TLC

VARIABLES
    csp,          \* the CSP instance: variables, original domains, constraints
    asg,          \* Variable.assignedValue of every variable (NoVal = None)
    curdom,       \* Variable.curdom: the values whose flag is True
    trail,        \* the driver's undo stack: one frame per assignment
    pc,           \* "idle" | "while" | "for": position inside GAC's loops
    newVar,       \* argument of the running prop_GAC call
    queue,        \* GAC: the list `queue`
    pruned_vals,  \* GAC: the list `pruned_vals`
    c,            \* GAC: the constraint popped last
    vi,           \* GAC: index in c's scope of the variable being scanned
    vals,         \* GAC: rest of the snapshot constraint.cur_domain() being scanned
    pops,         \* GAC: number of queue.pop() executed by the running call
    placed,       \* GAC: the constraints on the queue, in the order they were put on it
    pre,          \* cur_domain() of every variable at entry of the running call
    ret,          \* what the last propagation call returned, until the driver acts
    prev,         \* the return before it, when no driver action came between
    calls,        \* propagation calls made since the driver's last action
    fpuzz_grid,   \* caged_csp_model: the puzzle description, <<size>> then the cages
    objects,      \* caged_csp_model: the Variable objects created so far, by identity
    var_array,    \* caged_csp_model: the grid `variables`, var_array[row][col] is a Variable object
    built,        \* caged_csp_model: the CSP object: its variable list and constraints
    cage_cons,    \* caged_csp_model: the list `cons` of cage constraints
    cage_i,       \* caged_csp_model: the loop index i, the cage being compiled
    at,           \* caged_csp_model: "off" | "start" | "cages" | "add" | "done"
    state,        \* edge_without_storage: the SokobanState argument
    box,          \* edge_without_storage: the box argument (x, y)
    result,       \* edge_without_storage: the value returned
    done          \* edge_without_storage: whether the call has returned

vars == <<csp, asg, curdom, trail, pc, newVar, queue, pruned_vals, c, vi, vals,
          pops, placed, pre, ret, prev, calls,
          fpuzz_grid, objects, var_array, built, cage_cons, cage_i, at,
          state, box, result, done>>

\* the call of the Sokoban dead-end test
edgeVars == <<state, box, result, done>>

\* the state of the puzzle-model compiler
cageVars == <<fpuzz_grid, objects, var_array, built, cage_cons, cage_i, at>>

\* the state of the propagators and their driver
propVars == <<csp, asg, curdom, trail, pc, newVar, queue, pruned_vals, c, vi, vals,
              pops, placed, pre, ret, prev, calls>>

----------------------------------------------------------------------------
(* Helpers on sequences *)

Range(s) == {s[i] : i \in DOMAIN s}

Reverse(s) == [i \in 1..Len(s) |-> s[Len(s) + 1 - i]]

RECURSIVE Flatten(_)
Flatten(ss) == IF ss = <<>> THEN <<>> ELSE Head(ss) \o Flatten(Tail(ss))

\* the ascending sequence lo, lo+1, ..., hi-1 : Python's range(lo, hi)
range(lo, hi) == [i \in 1..(IF hi > lo THEN hi - lo ELSE 0) |-> lo + i - 1]

----------------------------------------------------------------------------
(* Sentinels standing for Python's None *)

NoVal == 0
NoVar == "None"
NoCon == [name |-> "None", scope |-> <<>>, sat |-> {}]

----------------------------------------------------------------------------
(* CSP instances *)

ChainDom == 3

\* propagation calls the driver makes in a row, between two of its own steps
MaxCalls == 2

varName(row, col) == "V" \o ToString(row + 1) \o ToString(col + 1)

\* slip: the column constraints are built over the cells of a row
binary_ne_grid_RowsTwice(size) ==
    LET variables == [row \in 1..size |-> [col \in 1..size |-> varName(row - 1, col - 1)]]
        var_list == Flatten(variables)
        sat_tuples == {t \in (1..size) \X (1..size) : ~(t[1] = t[2])}
        pair(i, j, k) ==
            << [name |-> "Row " \o ToString(i) \o " " \o ToString(j) \o ToString(k),
                scope |-> <<variables[i + 1][j + 1], variables[i + 1][k + 1]>>,
                sat |-> sat_tuples],
               [name |-> "Column " \o ToString(i) \o " " \o ToString(j) \o ToString(k),
                scope |-> <<variables[i + 1][j + 1], variables[i + 1][k + 1]>>,
                sat |-> sat_tuples] >>
        forK(i, j) == Flatten([n \in 1..Len(range(j + 1, size)) |-> pair(i, j, range(j + 1, size)[n])])
        forJ(i) == Flatten([n \in 1..size |-> forK(i, n - 1)])
        cons == Flatten([n \in 1..size |-> forJ(n - 1)])
    IN [name |-> "binary",
        vars |-> var_list,
        dom |-> [v \in Range(var_list) |-> range(1, size + 1)],
        cons |-> cons]

\* puzzle_csp.binary_ne_grid: a size x size grid, binary not-equal constraints
binary_ne_grid(size) ==
    LET variables == [row \in 1..size |-> [col \in 1..size |-> varName(row - 1, col - 1)]]
        var_list == Flatten(variables)
        sat_tuples == {t \in (1..size) \X (1..size) : ~(t[1] = t[2])}
        pair(i, j, k) ==
            << [name |-> "Row " \o ToString(i) \o " " \o ToString(j) \o ToString(k),
                scope |-> <<variables[i + 1][j + 1], variables[i + 1][k + 1]>>,
                sat |-> sat_tuples],
               [name |-> "Column " \o ToString(i) \o " " \o ToString(j) \o ToString(k),
                scope |-> <<variables[j + 1][i + 1], variables[k + 1][i + 1]>>,
                sat |-> sat_tuples] >>
        forK(i, j) == Flatten([n \in 1..Len(range(j + 1, size)) |-> pair(i, j, range(j + 1, size)[n])])
        forJ(i) == Flatten([n \in 1..size |-> forK(i, n - 1)])
        cons == Flatten([n \in 1..size |-> forJ(n - 1)])
    IN [name |-> "binary",
        vars |-> var_list,
        dom |-> [v \in Range(var_list) |-> range(1, size + 1)],
        cons |-> cons]

\* X, Y, Z with domain {1}; X != Y, Y != Z
ChainOne ==
    [name |-> "chain1",
     vars |-> <<"X", "Y", "Z">>,
     dom |-> [v \in {"X", "Y", "Z"} |-> <<1>>],
     cons |-> << [name |-> "XneY", scope |-> <<"X", "Y">>, sat |-> {}],
                 [name |-> "YneZ", scope |-> <<"Y", "Z">>, sat |-> {}] >>]

\* X < Y < Z over 1..ChainDom, with the unary constraint X < ChainDom
LtChain ==
    LET D == 1..ChainDom
        lt == {t \in D \X D : t[1] < t[2]}
    IN [name |-> "ltchain",
        vars |-> <<"X", "Y", "Z">>,
        dom |-> [v \in {"X", "Y", "Z"} |-> range(1, ChainDom + 1)],
        cons |-> << [name |-> "XltY", scope |-> <<"X", "Y">>, sat |-> lt],
                    [name |-> "YltZ", scope |-> <<"Y", "Z">>, sat |-> lt],
                    [name |-> "Xsmall", scope |-> <<"X">>,
                     sat |-> {<<d>> : d \in D \ {ChainDom}}] >>]

\* a ternary table W != X over (U, W, X), and V = W, V = X
Ternary ==
    LET D == {1, 2}
        eq == {t \in D \X D : t[1] = t[2]}
    IN [name |-> "ternary",
        vars |-> <<"U", "V", "W", "X">>,
        dom |-> [v \in {"U", "V", "W", "X"} |-> <<1, 2>>],
        cons |-> << [name |-> "UWX", scope |-> <<"U", "W", "X">>,
                     sat |-> {t \in D \X D \X D : t[2] # t[3]}],
                    [name |-> "VeqW", scope |-> <<"V", "W">>, sat |-> eq],
                    [name |-> "VeqX", scope |-> <<"V", "X">>, sat |-> eq] >>]

CSPs == {binary_ne_grid(2), ChainOne, LtChain, Ternary}

----------------------------------------------------------------------------
(* cspbase: Variable, Constraint, CSP *)

VarSet == Range(csp.vars)

is_assigned(v) == asg[v] # NoVal

get_assigned_value(v) == asg[v]

\* Variable.cur_domain(): the assigned value alone when assigned, else the
\* unpruned values in the order of the original domain
cur_domain(cd, v) ==
    IF is_assigned(v) THEN <<get_assigned_value(v)>>
    ELSE SelectSeq(csp.dom[v], LAMBDA d : d \in cd[v])

in_cur_domain(cd, v, d) ==
    IF d \notin Range(csp.dom[v]) THEN FALSE
    ELSE IF is_assigned(v) THEN d = get_assigned_value(v)
    ELSE d \in cd[v]

prune_value(cd, v, d) == [cd EXCEPT ![v] = @ \ {d}]

unprune_value(cd, v, d) == [cd EXCEPT ![v] = @ \cup {d}]

get_scope(con) == con.scope

check(con, t) == t \in con.sat

get_unasgn_vars(con) == SelectSeq(con.scope, LAMBDA v : ~is_assigned(v))

get_n_unasgn(con) == Len(get_unasgn_vars(con))

tuple_is_valid(cd, con, t) ==
    \A i \in DOMAIN con.scope : in_cur_domain(cd, con.scope[i], t[i])

has_support(cd, con, v, d) ==
    \E t \in con.sat :
        /\ \E i \in DOMAIN con.scope : con.scope[i] = v /\ t[i] = d
        /\ tuple_is_valid(cd, con, t)

get_all_cons == csp.cons

get_cons_with_var(v) == SelectSeq(csp.cons, LAMBDA con : v \in Range(con.scope))

\* every variable's current domain, as a set
CurDomains(cd) == [v \in VarSet |-> Range(cur_domain(cd, v))]

----------------------------------------------------------------------------
(* prop_BT *)

\* the loop of prop_BT over the constraints containing newVar
RECURSIVE BTLoop(_)
BTLoop(list) ==
    IF list = <<>> THEN [ok |-> TRUE, prunings |-> <<>>, cd |-> curdom]
    ELSE LET con == Head(list)
             scope == get_scope(con)
             values == [i \in DOMAIN scope |-> get_assigned_value(scope[i])]
         IN IF get_n_unasgn(con) = 0 /\ ~check(con, values)
            THEN [ok |-> FALSE, prunings |-> <<>>, cd |-> curdom]
            ELSE BTLoop(Tail(list))

\* slip: checks every constraint of the CSP, not those containing newVar
prop_BT_AllCons(nv) ==
    IF nv = NoVar THEN [ok |-> TRUE, prunings |-> <<>>, cd |-> curdom]
    ELSE BTLoop(get_all_cons)

prop_BT(nv) ==
    IF nv = NoVar THEN [ok |-> TRUE, prunings |-> <<>>, cd |-> curdom]
    ELSE BTLoop(get_cons_with_var(nv))

----------------------------------------------------------------------------
(* prop_FC and FCCheck *)

\* the tuple FCCheck builds: domain_member at x's position, the assigned
\* value of every other scope variable
valued_assigned(con, x, domain_member) ==
    [i \in DOMAIN get_scope(con) |->
        IF get_scope(con)[i] = x THEN domain_member
        ELSE get_assigned_value(get_scope(con)[i])]

\* slip: the tuple is handed to check in reverse scope order
FCPrune_Reversed(con, x, domain_member) ==
    ~check(con, Reverse(valued_assigned(con, x, domain_member)))

\* the test of FCCheck's loop for one domain_member: prune when falsified
FCPrune(con, x, domain_member) == ~check(con, valued_assigned(con, x, domain_member))

\* FCCheck's loop over the snapshot x.cur_domain(); members is what is left of it
RECURSIVE FCCheckLoop(_, _, _, _, _)
FCCheckLoop(con, x, members, cd, pruned) ==
    IF members = <<>> THEN [dwo |-> FALSE, pruned |-> pruned, cd |-> cd]
    ELSE LET domain_member == Head(members)
             falsified == FCPrune(con, x, domain_member)
             cd1 == IF falsified THEN prune_value(cd, x, domain_member) ELSE cd
             pruned1 == IF falsified THEN Append(pruned, <<x, domain_member>>) ELSE pruned
         IN IF cur_domain(cd1, x) = <<>>
            THEN [dwo |-> TRUE, pruned |-> pruned1, cd |-> cd1]
            ELSE FCCheckLoop(con, x, Tail(members), cd1, pruned1)

\* slip: on a wipeout the prunings of this check are dropped from the result
FCCheck_DropsOnDWO(cd, con, x) ==
    LET r == FCCheckLoop(con, x, cur_domain(cd, x), cd, <<>>)
    IN IF r.dwo THEN [r EXCEPT !.pruned = <<>>] ELSE r

\* slip: the check returns right after its first pruning
FCCheck_OnePruning(cd, con, x) ==
    LET r == FCCheckLoop(con, x, cur_domain(cd, x), cd, <<>>)
    IN IF Len(r.pruned) > 1
       THEN [dwo |-> FALSE, pruned |-> <<r.pruned[1]>>,
             cd |-> prune_value(cd, x, r.pruned[1][2])]
       ELSE r

\* slip: on a wipeout the checked variable's domain is reset to the original one
FCCheck_ResetsOnDWO(cd, con, x) ==
    LET r == FCCheckLoop(con, x, cur_domain(cd, x), cd, <<>>)
    IN IF r.dwo THEN [r EXCEPT !.cd = [cd EXCEPT ![x] = Range(csp.dom[x])]] ELSE r

FCCheck(cd, con, x) == FCCheckLoop(con, x, cur_domain(cd, x), cd, <<>>)

\* slip: on a wipeout only the prunings of the last FCCheck are returned
RECURSIVE FCLoop_LocalOnDWO(_, _, _)
FCLoop_LocalOnDWO(list, cd, pruned) ==
    IF list = <<>> THEN [ok |-> TRUE, prunings |-> pruned, cd |-> cd]
    ELSE LET con == Head(list)
         IN IF get_n_unasgn(con) = 1
            THEN LET r == FCCheck(cd, con, get_unasgn_vars(con)[1])
                 IN IF r.dwo
                    THEN [ok |-> FALSE, prunings |-> r.pruned, cd |-> r.cd]
                    ELSE FCLoop_LocalOnDWO(Tail(list), r.cd, pruned \o r.pruned)
            ELSE FCLoop_LocalOnDWO(Tail(list), cd, pruned)

\* prop_FC's loop over the working list; list is what is left of it
RECURSIVE FCLoop(_, _, _)
FCLoop(list, cd, pruned) ==
    IF list = <<>> THEN [ok |-> TRUE, prunings |-> pruned, cd |-> cd]
    ELSE LET con == Head(list)
         IN IF get_n_unasgn(con) = 1
            THEN LET r == FCCheck(cd, con, get_unasgn_vars(con)[1])
                 IN IF r.dwo
                    THEN [ok |-> FALSE, prunings |-> pruned \o r.pruned, cd |-> r.cd]
                    ELSE FCLoop(Tail(list), r.cd, pruned \o r.pruned)
            ELSE FCLoop(Tail(list), cd, pruned)

\* slip: newVar is ignored and every constraint is taken
WorkingList_Ignores(nv) == get_all_cons

\* the working list of prop_FC and the seed of prop_GAC
WorkingList(nv) == IF nv = NoVar THEN get_all_cons ELSE get_cons_with_var(nv)

\* slip: forward checking also rejects a violated fully assigned constraint
prop_FC_ChecksFull(nv) ==
    IF ~prop_BT(nv).ok THEN [ok |-> FALSE, prunings |-> <<>>, cd |-> curdom]
    ELSE FCLoop(WorkingList(nv), curdom, <<>>)

prop_FC(nv) == FCLoop(WorkingList(nv), curdom, <<>>)

----------------------------------------------------------------------------
(* What a call hands back to the driver *)

NoRet == [strat |-> "none", newVar |-> NoVar, ok |-> TRUE, prunings |-> <<>>,
          pre |-> [v \in VarSet |-> {}]]

NoPrev == [strat |-> "none", newVar |-> NoVar, ok |-> TRUE]

Top == trail[Len(trail)]

\* the driver records the returned prunings in the frame of the last assignment
Record(nv, prunings) ==
    [trail EXCEPT ![Len(trail)] =
        [@ EXCEPT !.prunings = @ \cup Range(prunings)]]

\* a propagator may be called when the last call did not fail, with no
\* variable or with the most recently assigned one
CanCall(nv) ==
    /\ pc = "idle"
    /\ ret.ok
    /\ calls < MaxCalls
    /\ nv = NoVar \/ nv = Top.var

\* a call begins: what the driver held as the last return is now the one before
Entered ==
    /\ prev' = [strat |-> ret.strat, newVar |-> ret.newVar, ok |-> ret.ok]
    /\ calls' = calls + 1

Returned(strat, nv, ok, prunings, before) ==
    /\ ret' = [strat |-> strat, newVar |-> nv, ok |-> ok, prunings |-> prunings,
               pre |-> before]
    /\ trail' = Record(nv, prunings)

GACIdle ==
    /\ pc' = "idle"
    /\ newVar' = NoVar
    /\ queue' = <<>>
    /\ pruned_vals' = <<>>
    /\ c' = NoCon
    /\ vi' = 0
    /\ vals' = <<>>
    /\ pops' = 0
    /\ placed' = <<>>
    /\ pre' = [v \in VarSet |-> {}]

GACLocals == <<pc, newVar, queue, pruned_vals, c, vi, vals, pops, placed, pre>>

----------------------------------------------------------------------------
(* The calls of prop_BT and prop_FC *)

CallBT(nv) ==
    /\ CanCall(nv)
    /\ Entered
    /\ LET r == prop_BT(nv)
       IN /\ curdom' = r.cd
          /\ Returned("BT", nv, r.ok, r.prunings, CurDomains(curdom))
    /\ UNCHANGED <<csp, asg, GACLocals>>
    /\ UNCHANGED <<cageVars, edgeVars>>

CallFC(nv) ==
    /\ CanCall(nv)
    /\ Entered
    /\ LET r == prop_FC(nv)
       IN /\ curdom' = r.cd
          /\ Returned("FC", nv, r.ok, r.prunings, CurDomains(curdom))
    /\ UNCHANGED <<csp, asg, GACLocals>>
    /\ UNCHANGED <<cageVars, edgeVars>>

----------------------------------------------------------------------------
(* prop_GAC and GAC, one step per value scanned *)

\* every constraint enters the queue at most once at the seed, and a value of
\* a current domain can be removed once, which enqueues at most the constraints
\* of its variable: more pops than this and the loop is repeating itself
RECURSIVE Enqueues(_)
Enqueues(s) ==
    IF s = <<>> THEN 0
    ELSE Cardinality(pre[Head(s)]) * Len(get_cons_with_var(Head(s))) + Enqueues(Tail(s))

PopBound == Len(csp.cons) + Enqueues(csp.vars)

\* for con in list: queue = [con] + queue
Seed(list) == Reverse(list)

\* the constraints of list that `constr not in queue` lets through, in the
\* order the loop meets them
Absent(list, q) == SelectSeq(list, LAMBDA constr : constr \notin Range(q))

\* what is left of the placement order once con has been popped
Remove(s, con) == SelectSeq(s, LAMBDA x : x # con)

\* slip: constraints are added at the end the queue is popped from
Enqueue_AtPopEnd(list, q) == q \o Absent(list, q)

\* slip: nothing is put back on the queue after a pruning
Enqueue_Nothing(list, q) == q

\* slip: constraints are put on the queue without the membership test
Enqueue_Untested(list, q) == Reverse(list) \o q

\* for constr in csp.get_cons_with_var(v): if constr not in queue: queue = [constr] + queue
RECURSIVE Enqueue(_, _)
Enqueue(list, q) ==
    IF list = <<>> THEN q
    ELSE Enqueue(Tail(list),
                 IF Head(list) \in Range(q) THEN q ELSE <<Head(list)>> \o q)

\* the first scope position from i on whose variable has values to scan,
\* or 0 when the scan of con is over
RECURSIVE NextScan(_, _, _)
NextScan(cd, con, i) ==
    IF i > Len(get_scope(con)) THEN 0
    ELSE IF cur_domain(cd, get_scope(con)[i]) # <<>> THEN i
    ELSE NextScan(cd, con, i + 1)

\* move to scope position i of con (or back to the while test)
ScanFrom(cd, con, i) ==
    LET j == NextScan(cd, con, i)
    IN IF j = 0
       THEN pc' = "while" /\ vi' = 0 /\ vals' = <<>>
       ELSE pc' = "for" /\ vi' = j /\ vals' = cur_domain(cd, get_scope(con)[j])

CallGAC(nv) ==
    /\ CanCall(nv)
    /\ pc' = "while"
    /\ newVar' = nv
    /\ queue' = Seed(WorkingList(nv))
    /\ placed' = WorkingList(nv)
    /\ pruned_vals' = <<>>
    /\ pre' = CurDomains(curdom)
    /\ Entered
    /\ ret' = NoRet
    /\ UNCHANGED <<csp, asg, curdom, trail, c, vi, vals, pops>>
    /\ UNCHANGED <<cageVars, edgeVars>>

\* slip: an emptied domain is not noticed
Wipeout_Missed(cd, v) == FALSE

\* `if constraint.cur_domain(): ... else: return True, pruned_vals`
Wipeout(cd, v) == cur_domain(cd, v) = <<>>

\* c = queue.pop(), then the scan of c's scope starts
GACPop ==
    /\ pc = "while"
    /\ queue # <<>>
    /\ pops <= PopBound
    /\ c' = queue[Len(queue)]
    /\ queue' = SubSeq(queue, 1, Len(queue) - 1)
    /\ pops' = pops + 1
    /\ placed' = Remove(placed, c')
    /\ ScanFrom(curdom, c', 1)
    /\ UNCHANGED <<csp, asg, curdom, trail, newVar, pruned_vals, pre, ret, prev, calls>>
    /\ UNCHANGED <<cageVars, edgeVars>>

\* the body of the inner loop for curr = Head(vals)
GACValue ==
    /\ pc = "for"
    /\ LET constraint == get_scope(c)[vi]
           curr == Head(vals)
       IN IF has_support(curdom, c, constraint, curr)
          THEN /\ IF Tail(vals) = <<>>
                  THEN ScanFrom(curdom, c, vi + 1)
                  ELSE vals' = Tail(vals) /\ UNCHANGED <<pc, vi>>
               /\ UNCHANGED <<curdom, trail, newVar, queue, pruned_vals, c, pops,
                              placed, pre, ret, prev, calls>>
          ELSE LET cd1 == prune_value(curdom, constraint, curr)
                   pruned1 == Append(pruned_vals, <<constraint, curr>>)
               IN /\ curdom' = cd1
                  /\ IF ~Wipeout(cd1, constraint)
                     THEN /\ queue' = Enqueue(get_cons_with_var(constraint), queue)
                          /\ placed' = placed \o Absent(get_cons_with_var(constraint), queue)
                          /\ pruned_vals' = pruned1
                          /\ IF Tail(vals) = <<>>
                             THEN ScanFrom(cd1, c, vi + 1)
                             ELSE vals' = Tail(vals) /\ UNCHANGED <<pc, vi>>
                          /\ UNCHANGED <<trail, newVar, c, pops, pre, ret, prev, calls>>
                     ELSE \* GAC returns (True, pruned_vals): prop_GAC returns False
                          /\ Returned("GAC", newVar, FALSE, pruned1, pre)
                          /\ GACIdle
                          /\ UNCHANGED <<prev, calls>>
    /\ UNCHANGED <<csp, asg>>
    /\ UNCHANGED <<cageVars, edgeVars>>

\* the queue is empty: GAC returns (False, pruned_vals), prop_GAC returns True
GACExit ==
    /\ pc = "while"
    /\ queue = <<>>
    /\ Returned("GAC", newVar, TRUE, pruned_vals, pre)
    /\ GACIdle
    /\ UNCHANGED <<csp, asg, curdom, prev, calls>>
    /\ UNCHANGED <<cageVars, edgeVars>>

----------------------------------------------------------------------------
(* The search driver *)

\* var.assign(val) for an unassigned variable and a value of its current domain
Assign(v, d) ==
    /\ pc = "idle"
    /\ ret.ok
    /\ ~is_assigned(v)
    /\ d \in Range(cur_domain(curdom, v))
    /\ asg' = [asg EXCEPT ![v] = d]
    /\ trail' = Append(trail, [var |-> v, prunings |-> {}])
    /\ ret' = NoRet
    /\ prev' = NoPrev
    /\ calls' = 0
    /\ UNCHANGED <<csp, curdom, GACLocals>>
    /\ UNCHANGED <<cageVars, edgeVars>>

\* restoreValues(prunings) of the last frame, and var.unassign()
Undo ==
    /\ pc = "idle"
    /\ Len(trail) > 1 \/ Top.prunings # {} \/ ~ret.ok
    /\ curdom' = [v \in VarSet |-> curdom[v] \cup {d \in Range(csp.dom[v]) : <<v, d>> \in Top.prunings}]
    /\ IF Len(trail) > 1
       THEN /\ asg' = [asg EXCEPT ![Top.var] = NoVal]
            /\ trail' = SubSeq(trail, 1, Len(trail) - 1)
       ELSE /\ asg' = asg
            /\ trail' = <<[var |-> NoVar, prunings |-> {}]>>
    /\ ret' = NoRet
    /\ prev' = NoPrev
    /\ calls' = 0
    /\ UNCHANGED <<csp, GACLocals>>
    /\ UNCHANGED <<cageVars, edgeVars>>

----------------------------------------------------------------------------

\* no puzzle is being compiled
CompilerOff ==
    /\ fpuzz_grid = <<>>
    /\ objects = <<>>
    /\ var_array = <<>>
    /\ built = [vars |-> <<>>, cons |-> <<>>]
    /\ cage_cons = <<>>
    /\ cage_i = 0
    /\ at = "off"

\* no Sokoban state is being tested
EdgeOff ==
    /\ state = [width |-> 0, height |-> 0, boxes |-> {}, storage |-> {}]
    /\ box = <<0, 0>>
    /\ result = FALSE
    /\ done = FALSE

\* a CSP right after construction, before any search
Constructed ==
    /\ asg = [v \in VarSet |-> NoVal]
    /\ curdom = [v \in VarSet |-> Range(csp.dom[v])]
    /\ trail = <<[var |-> NoVar, prunings |-> {}]>>
    /\ pc = "idle"
    /\ newVar = NoVar
    /\ queue = <<>>
    /\ pruned_vals = <<>>
    /\ c = NoCon
    /\ vi = 0
    /\ vals = <<>>
    /\ pops = 0
    /\ placed = <<>>
    /\ pre = [v \in VarSet |-> {}]
    /\ ret = NoRet
    /\ prev = NoPrev
    /\ calls = 0

Init ==
    /\ csp \in CSPs
    /\ Constructed
    /\ CompilerOff
    /\ EdgeOff

Args == VarSet \cup {NoVar}

Next ==
    \/ \E nv \in Args : CallBT(nv)
    \/ \E nv \in Args : CallFC(nv)
    \/ \E nv \in Args : CallGAC(nv)
    \/ GACPop
    \/ GACValue
    \/ GACExit
    \/ \E v \in VarSet : \E d \in Range(csp.dom[v]) : Assign(v, d)
    \/ Undo

Spec == Init /\ [][Next]_vars

----------------------------------------------------------------------------
(* Vocabulary of the properties *)

\* a propagation call has just returned and the driver has not acted since
JustReturned(strat) == pc = "idle" /\ ret.strat = strat

NoDuplicates(s) == \A i, j \in DOMAIN s : i # j => s[i] # s[j]

\* the values a pruning list reports for variable v
Reported(prunings, v) == {p[2] : p \in {q \in Range(prunings) : q[1] = v}}

\* every variable's current domain now
Now == CurDomains(curdom)

\* the unassigned variables of a constraint's scope
Unassigned(con) == {v \in Range(con.scope) : asg[v] = NoVal}

\* the constraints a call with argument nv works on, in the CSP's order
WorkingSeq(nv) ==
    IF nv = NoVar THEN csp.cons
    ELSE SelectSeq(csp.cons, LAMBDA con : nv \in Range(con.scope))

\* con holds of d for x together with the assigned values of the rest of its
\* scope, in scope order
SatisfiedWith(con, x, d) ==
    [i \in DOMAIN con.scope |-> IF con.scope[i] = x THEN d ELSE asg[con.scope[i]]]
        \in con.sat

\* con is a constraint with the single unassigned variable x that rules out d
Justifies(con, x, d) == Unassigned(con) = {x} /\ ~SatisfiedWith(con, x, d)

LastPruning == ret.prunings[Len(ret.prunings)]

Supported(con) ==
    \A i \in DOMAIN con.scope :
        \A d \in Now[con.scope[i]] : has_support(curdom, con, con.scope[i], d)

----------------------------------------------------------------------------
(* C1 *)

\* C1: the prunings returned by any propagation call hold no (variable, value)
\* pair twice, and every pair names a value that was in the variable's current
\* domain right before the call.
C1_PruningsOnceAndFromDomain ==
    (pc = "idle" /\ ret.strat # "none") =>
        /\ NoDuplicates(ret.prunings)
        /\ \A p \in Range(ret.prunings) : p[2] \in ret.pre[p[1]]

----------------------------------------------------------------------------
(* C2 *)

\* C2: what prop_FC and prop_GAC report is exactly what they removed: for
\* every variable, current domain before the call minus current domain after
\* it is the set of values reported for it, on success and on failure.
C2_PruningsExact ==
    (JustReturned("FC") \/ JustReturned("GAC")) =>
        \A v \in VarSet : ret.pre[v] \ Now[v] = Reported(ret.prunings, v)

----------------------------------------------------------------------------
(* C3 *)

\* C3: after prop_GAC with no newly assigned variable returned true, every
\* value of every current domain has a support in every constraint whose
\* scope holds its variable.
C3_GACFixpoint ==
    (JustReturned("GAC") /\ ret.newVar = NoVar /\ ret.ok) =>
        \A con \in Range(csp.cons) : Supported(con)

\* a pre-search GAC call that removed a value when re-processing a constraint
\* it had already popped once, and returned true
C3_Witness ==
    /\ JustReturned("GAC") /\ ret.newVar = NoVar /\ ret.ok
    /\ csp = LtChain
    /\ \A v \in VarSet : ~is_assigned(v)
    /\ {ChainDom - 1, ChainDom} \subseteq Reported(ret.prunings, "X")

----------------------------------------------------------------------------
(* C4 *)

\* C4: the GAC loop ends after finitely many pops from every state it can be
\* called in: a call never pops more often than PopBound, the number of
\* constraints plus the enqueues its removals of domain values can cause.
C4_GACTerminates == pops <= PopBound

----------------------------------------------------------------------------
(* C5 *)

\* C5: when prop_FC returns true, every value left in the current domain of
\* the single unassigned variable of a working-set constraint satisfies that
\* constraint together with the assigned values of the rest of the scope.
C5_FCLeavesConsistentValues ==
    (JustReturned("FC") /\ ret.ok) =>
        \A con \in Range(WorkingSeq(ret.newVar)) :
            \A x \in VarSet :
                Unassigned(con) = {x} => \A d \in Now[x] : SatisfiedWith(con, x, d)

\* forward checking after an assignment pruned two values or more and left
\* some value to the variable it checked
C5_Witness ==
    /\ JustReturned("FC") /\ ret.ok /\ ret.newVar # NoVar
    /\ Len(ret.prunings) >= 2
    /\ \E con \in Range(WorkingSeq(ret.newVar)) :
           \E x \in VarSet : Unassigned(con) = {x} /\ Now[x] # {} /\ Reported(ret.prunings, x) # {}

----------------------------------------------------------------------------
(* C6 *)

\* C6: every pair prop_FC prunes is an unassigned variable that is the single
\* unassigned variable of a working-set constraint violated by the value, and
\* assigned variables and variables that are the single unassigned variable of
\* no working-set constraint keep their current domains.
C6_FCPrunesOnlyJustified ==
    JustReturned("FC") =>
        /\ \A p \in Range(ret.prunings) :
               /\ asg[p[1]] = NoVal
               /\ \E con \in Range(WorkingSeq(ret.newVar)) : Justifies(con, p[1], p[2])
        /\ \A v \in VarSet :
               (asg[v] # NoVal \/ ~\E con \in Range(WorkingSeq(ret.newVar)) : Unassigned(con) = {v})
                   => Now[v] = ret.pre[v]

\* forward checking after an assignment pruned something while a constraint
\* outside its working set had a single unassigned variable with a violating
\* value, which it left alone
C6_Witness ==
    /\ JustReturned("FC") /\ ret.newVar # NoVar /\ ret.prunings # <<>>
    /\ \E con \in Range(csp.cons) :
           /\ ret.newVar \notin Range(con.scope)
           /\ \E x \in VarSet : \E d \in Now[x] : Justifies(con, x, d)

----------------------------------------------------------------------------
(* C7 *)

\* C7: when a pruning of prop_FC empties the checked variable's domain the call
\* returns false at once with the prunings made so far, the emptying one last:
\* no other pruned variable is empty and every pruning comes from a constraint
\* up to the one that caused the wipeout, and the returned prunings are all the
\* values the call removed, nothing being removed that is not in them; a call
\* that returns true emptied no domain.  With X = 1, Y = 1, Z in {1} and Y != Z, prop_FC(Y) returns false
\* with (Z, 1) among the prunings.
C7_FCWipeout ==
    /\ (JustReturned("FC") /\ ~ret.ok) =>
           /\ ret.prunings # <<>>
           /\ LET x == LastPruning[1]
                  w == WorkingSeq(ret.newVar)
              IN /\ Now[x] = {}
                 /\ \A v \in VarSet \ {x} : Reported(ret.prunings, v) # {} => Now[v] # {}
                 /\ \E k \in DOMAIN w :
                        /\ Justifies(w[k], x, LastPruning[2])
                        /\ \A p \in Range(ret.prunings) :
                               \E j \in 1..k : Justifies(w[j], p[1], p[2])
           /\ NoDuplicates(ret.prunings)
           /\ \A v \in VarSet : ret.pre[v] \ Now[v] = Reported(ret.prunings, v)
    /\ (JustReturned("FC") /\ ret.ok) =>
           \A p \in Range(ret.prunings) : Now[p[1]] # {}
    /\ (/\ JustReturned("FC") /\ csp = ChainOne /\ ret.newVar = "Y"
        /\ asg["X"] = 1 /\ asg["Y"] = 1 /\ asg["Z"] = NoVal /\ ret.pre["Z"] = {1}) =>
           ~ret.ok /\ <<"Z", 1>> \in Range(ret.prunings)

\* prop_FC(Y) returned false after pruning X through one constraint and then
\* wiping out Z through the next: the prunings of both are returned
C7_Witness ==
    /\ JustReturned("FC") /\ csp = LtChain /\ ret.newVar = "Y" /\ ~ret.ok
    /\ asg["X"] = NoVal /\ asg["Z"] = NoVal
    /\ Reported(ret.prunings, "X") # {} /\ Now["X"] # {}
    /\ Reported(ret.prunings, "Z") = ret.pre["Z"] /\ Now["Z"] = {}
    /\ LastPruning[1] = "Z"

\* the scenario: X = 1, Y = 1, prop_FC(Y) wiped out Z
C7_Scenario ==
    /\ JustReturned("FC") /\ csp = ChainOne /\ ret.newVar = "Y"
    /\ asg["X"] = 1 /\ asg["Y"] = 1 /\ asg["Z"] = NoVal /\ ret.pre["Z"] = {1}
    /\ ~ret.ok /\ ret.prunings = << <<"Z", 1>> >>

----------------------------------------------------------------------------
(* C8 *)

\* C8: a prop_GAC call that has returned false ends its prunings with the one
\* that emptied a domain and emptied no other pruned variable; one that has
\* returned true emptied none; either way every value gone from a current
\* domain since the call began is in the returned prunings.
C8_GACWipeout ==
    JustReturned("GAC") =>
        /\ ~ret.ok =>
               /\ ret.prunings # <<>>
               /\ Now[LastPruning[1]] = {}
               /\ \A v \in VarSet \ {LastPruning[1]} :
                      Reported(ret.prunings, v) # {} => Now[v] # {}
        /\ ret.ok => \A p \in Range(ret.prunings) : Now[p[1]] # {}
        /\ \A v \in VarSet : ret.pre[v] \ Now[v] \subseteq Reported(ret.prunings, v)

\* a GAC call failed after pruning values of two variables or more
C8_Witness ==
    /\ JustReturned("GAC") /\ ~ret.ok
    /\ Cardinality({p[1] : p \in Range(ret.prunings)}) >= 2
    /\ \E v \in VarSet \ {LastPruning[1]} : ret.pre[v] # Now[v]

----------------------------------------------------------------------------
(* C9 *)

\* C9: prop_BT never prunes; with no variable it returns true; with a newly
\* assigned variable it returns false exactly when a constraint containing
\* that variable has every scope variable assigned and does not hold of the
\* assigned values in scope order.  X != Y with X = 1, Y = 1 gives (false, []).
C9_BTChecksFullConstraints ==
    JustReturned("BT") =>
        /\ ret.prunings = <<>>
        /\ Now = ret.pre
        /\ ret.newVar = NoVar => ret.ok
        /\ ret.newVar # NoVar =>
               (ret.ok <=> ~\E con \in Range(csp.cons) :
                              /\ ret.newVar \in Range(con.scope)
                              /\ Unassigned(con) = {}
                              /\ [i \in DOMAIN con.scope |-> asg[con.scope[i]]] \notin con.sat)
        /\ (csp = ChainOne /\ asg["X"] = 1 /\ asg["Y"] = 1 /\ ret.newVar \in {"X", "Y"}) =>
               ~ret.ok

\* the scenario: X != Y, X = 1, Y = 1, prop_BT(Y) returned (false, [])
C9_Witness ==
    /\ JustReturned("BT") /\ csp = ChainOne
    /\ asg["X"] = 1 /\ asg["Y"] = 1 /\ ret.newVar = "Y"
    /\ ~ret.ok /\ ret.prunings = <<>>

----------------------------------------------------------------------------
(* C10 *)

\* C10: a strategy called again with no variable, right after a call of it with
\* no variable returned true and with no driver step between, returns
\* (true, []) and changes no current domain.
C10_Idempotent ==
    (/\ pc = "idle" /\ ret.strat # "none" /\ ret.newVar = NoVar
     /\ prev.strat = ret.strat /\ prev.newVar = NoVar /\ prev.ok) =>
        /\ ret.ok
        /\ ret.prunings = <<>>
        /\ Now = ret.pre

\* forward checking ran twice in a row with variables assigned, and its first
\* run had pruned something
C10_Witness ==
    /\ pc = "idle" /\ ret.strat = "FC" /\ ret.newVar = NoVar
    /\ prev.strat = "FC" /\ prev.newVar = NoVar /\ prev.ok
    /\ \E v \in VarSet : asg[v] # NoVal
    /\ Cardinality(Top.prunings) >= 2

----------------------------------------------------------------------------
(* C11 *)

\* C11: in every reachable state each current domain lies within the original
\* domain and an assigned variable's current domain is exactly its assigned
\* value; and no propagation call reports the assigned value of an assigned
\* variable as pruned.
C11_DomainsAndAssignedValues ==
    /\ \A v \in VarSet : Now[v] \subseteq Range(csp.dom[v])
    /\ \A v \in VarSet : asg[v] # NoVal => Now[v] = {asg[v]}
    /\ (pc = "idle" /\ ret.strat # "none") =>
           \A p \in Range(ret.prunings) : asg[p[1]] # p[2]

----------------------------------------------------------------------------
(* C12 *)

\* a step of a propagation call: every other step resets the call counter
PropagationStep == calls' >= 1

\* C12: a step of a propagation call gives no current domain a value it did
\* not have, so across calls with no restore in between the domains only
\* shrink; and a prop_BT call leaves every current domain as it was.
C12_DomainsOnlyShrink ==
    [][PropagationStep =>
          /\ \A v \in VarSet : Now'[v] \subseteq Now[v] /\ curdom'[v] \subseteq curdom[v]
          /\ (calls' = calls + 1 /\ ret'.strat = "BT") => Now' = Now /\ curdom' = curdom]_vars

\* a second call in a row, prop_GAC after prop_FC, that shrank a domain further
C12_Witness ==
    /\ pc = "idle" /\ calls = 2
    /\ prev.strat = "FC" /\ ret.strat = "GAC"
    /\ \E v \in VarSet : Now[v] # ret.pre[v] /\ Now[v] # {}

----------------------------------------------------------------------------
(* C13 *)

\* prop_GAC(csp, V11) has returned on the 2x2 grid, called with V11 assigned 1
\* and the other three cells unassigned with both values in their domains
GridCallReturned ==
    /\ csp.name = "binary"
    /\ JustReturned("GAC") /\ ret.newVar = "V11"
    /\ asg = [v \in VarSet |-> IF v = "V11" THEN 1 ELSE NoVal]
    /\ ret.pre = [v \in VarSet |-> IF v = "V11" THEN {1} ELSE {1, 2}]

\* C13: on the 2x2 not-equal grid with domains {1,2}, prop_GAC called for cell
\* (0,0) assigned 1 returns true, reports (cell(0,1),1) and (cell(1,0),1) among
\* its prunings and leaves both of these cells with the domain {2}.
C13_GridPropagation ==
    GridCallReturned =>
        /\ ret.ok
        /\ {<<"V12", 1>>, <<"V21", 1>>} \subseteq Range(ret.prunings)
        /\ Now["V12"] = {2} /\ Now["V21"] = {2}

C13_Witness == GridCallReturned /\ Len(ret.prunings) >= 2

----------------------------------------------------------------------------
(* C16 *)

\* the constraints a prop_GAC call had on its queue: its seed, and those of a
\* variable it reports a pruning of
Visited(con) ==
    \/ ret.newVar = NoVar
    \/ ret.newVar \in Range(con.scope)
    \/ \E p \in Range(ret.prunings) : p[1] \in Range(con.scope)

\* C16 as stated: whenever prop_GAC returns true, with or without newVar and
\* from any domain state, every value of every current domain has a support
\* in every constraint containing its variable.
C16_FixpointFromAnyState ==
    (JustReturned("GAC") /\ ret.ok) => \A con \in Range(csp.cons) : Supported(con)

\* C16 amended: whenever prop_GAC returns true, every value of every current
\* domain has a support in every constraint that contains newVar or a variable
\* the call pruned (every constraint, when the call had no newVar).
C16_FixpointOfVisited ==
    (JustReturned("GAC") /\ ret.ok) =>
        \A con \in Range(csp.cons) : Visited(con) => Supported(con)

\* a call for a new variable returned true after pruning a variable of a
\* constraint that does not contain the new variable
C16_Witness ==
    /\ JustReturned("GAC") /\ ret.ok /\ ret.newVar # NoVar
    /\ \E con \in Range(csp.cons) :
           /\ ret.newVar \notin Range(con.scope)
           /\ \E p \in Range(ret.prunings) : p[1] \in Range(con.scope)

----------------------------------------------------------------------------
(* C17 *)

\* a step of GAC's loop that pruned a value and left the domain non-empty
PruneStep ==
    /\ pc = "for" /\ pc' # "idle"
    /\ Len(pruned_vals') = Len(pruned_vals) + 1

\* C17: right after GAC prunes a value from a variable whose domain stays
\* non-empty, every constraint containing that variable, the one being
\* processed included, is on the queue; and the queue never holds a
\* constraint twice.
C17_RequeueAfterPrune ==
    [][/\ NoDuplicates(queue')
       /\ PruneStep =>
              LET v == pruned_vals'[Len(pruned_vals')][1]
              IN /\ c \in Range(queue')
                 /\ \A con \in Range(csp.cons) :
                        v \in Range(con.scope) => con \in Range(queue')]_vars

\* inside the loop after a pruning: the constraint being processed is back on
\* the queue behind another one
C17_Witness ==
    /\ pc = "for" /\ pruned_vals # <<>>
    /\ c \in Range(queue) /\ Len(queue) >= 2
    /\ \A con \in Range(csp.cons) :
           pruned_vals[Len(pruned_vals)][1] \in Range(con.scope) => con \in Range(queue)

----------------------------------------------------------------------------
(* C18 *)

\* a constraint containing the call's new variable whose scope is fully
\* assigned and whose assigned values violate it
ViolatedFull(con) ==
    /\ ret.newVar \in Range(con.scope)
    /\ Unassigned(con) = {}
    /\ [i \in DOMAIN con.scope |-> asg[con.scope[i]]] \notin con.sat

\* x had, when the call began, a value that all working-set constraints with
\* the single unassigned variable x accept
Survives(x) ==
    \E d \in ret.pre[x] :
        \A con \in Range(WorkingSeq(ret.newVar)) :
            Unassigned(con) = {x} => SatisfiedWith(con, x, d)

\* C18: prop_FC returns false exactly when one of its prunings emptied the
\* domain of the variable it was forward checking; only constraints with a
\* single unassigned variable count, so a call returns true whenever no such
\* constraint wipes out a domain, also when a fully assigned constraint
\* containing newVar is violated.
C18_FCFailsOnlyOnWipeout ==
    JustReturned("FC") =>
        /\ ~ret.ok <=> \E p \in Range(ret.prunings) : Now[p[1]] = {}
        /\ (\A x \in VarSet : asg[x] = NoVal => Survives(x)) => ret.ok

\* forward checking returned true after an assignment that violates a fully
\* assigned constraint, having checked another constraint of the new variable
C18_Witness ==
    /\ JustReturned("FC") /\ ret.ok /\ ret.newVar # NoVar
    /\ \E con \in Range(csp.cons) : ViolatedFull(con)
    /\ \E con \in Range(WorkingSeq(ret.newVar)) : Cardinality(Unassigned(con)) = 1

----------------------------------------------------------------------------
(* C15 *)

\* a step that executes c = queue.pop()
PopStep == pops' = pops + 1

\* C15 as stated: the queue is a LIFO stack, every pop takes the constraint
\* placed most recently among those waiting.
C15_PopsNewest == [][PopStep => c' = placed[Len(placed)]]_vars

\* C15 amended: the queue is first-in first-out, every pop takes the constraint
\* placed earliest among those waiting, so a re-enqueued constraint is
\* processed after the constraints already waiting.
C15_PopsOldest == [][PopStep => c' = placed[1]]_vars

\* the second pop took the second seeded constraint although the first one,
\* whose processing pruned a variable outside this constraint's scope, had been
\* put back on the queue before that pop
C15_Witness ==
    /\ pc = "for" /\ pops = 2 /\ pruned_vals # <<>>
    /\ Len(WorkingSeq(newVar)) >= 2
    /\ c = WorkingSeq(newVar)[2]
    /\ pruned_vals[1][1] \notin Range(c.scope)
    /\ WorkingSeq(newVar)[1] \in Range(queue)

----------------------------------------------------------------------------
(* puzzle_csp.caged_csp_model: the compiler from a puzzle description to a *)
(* CSP and a grid of Variable objects.  A Variable object is its index in  *)
(* `objects`; two objects of the same name are two Variables.              *)

GridSize == 2

\* cages of a puzzle description
MaxCages == 2

\* largest target of an arithmetic cage
MaxTarget == 3

\* the cell numbers of a description: row digit, column digit, both from 1
Cells == {10 * row + col : row \in 1..GridSize, col \in 1..GridSize}

\* [cell, target] cages, and [cell, cell, target, operation] cages over two
\* neighbouring cells
CagePool ==
    {<<cell, target>> : cell \in Cells, target \in 1..GridSize}
    \cup {<<a, b, target, operation>> :
              a \in Cells, b \in Cells, target \in 1..MaxTarget, operation \in 0..3}

Neighbours(a, b) == b - a = 1 \/ b - a = 10

\* the cells a cage names
CageCells(cage) ==
    IF Len(cage) = 2 THEN {cage[1]} ELSE {cage[j] : j \in 1..(Len(cage) - 2)}

WellFormed(cage) == Len(cage) = 2 \/ Neighbours(cage[1], cage[2])

\* descriptions <<size>>, cage, ... whose cages do not overlap
Puzzles ==
    {<< <<GridSize>> >> \o cages :
        cages \in {cs \in UNION {[1..n -> CagePool] : n \in 1..MaxCages} :
                      /\ \A k \in DOMAIN cs : WellFormed(cs[k])
                      /\ \A k, l \in DOMAIN cs :
                             k # l => CageCells(cs[k]) \cap CageCells(cs[l]) = {}}}

\* the decimal digits of n, most significant first: str(n)
RECURSIVE Digits(_)
Digits(n) == IF n < 10 THEN <<n>> ELSE Append(Digits(n \div 10), n % 10)

\* row = int(str(cell)[0]) - 1, col = int(str(cell)[1]) - 1
CellRow(cell) == Digits(cell)[1] - 1
CellCol(cell) == Digits(cell)[2] - 1

RECURSIVE Sum(_)
Sum(t) == IF t = <<>> THEN 0 ELSE Head(t) + Sum(Tail(t))

RECURSIVE Product(_)
Product(t) == IF t = <<>> THEN 1 ELSE Head(t) * Product(Tail(t))

\* the tuples of the product of the domains that reach the target.  For
\* subtraction and division the code tries every permutation; the result of
\* one depends only on which member comes first
cage_tuple(domain, target, operation) ==
    LET n == Len(domain)
        values == UNION {Range(domain[k]) : k \in 1..n}
        prod_domain == {dom \in [1..n -> values] : \A k \in 1..n : dom[k] \in Range(domain[k])}
        others(dom, k) == [j \in 1..(n - 1) |-> IF j < k THEN dom[j] ELSE dom[j + 1]]
    IN {dom \in prod_domain :
            CASE operation = 0 -> Sum(dom) = target
              [] operation = 1 -> \E k \in 1..n : dom[k] - Sum(others(dom, k)) = target
              [] operation = 2 -> \E k \in 1..n : dom[k] = target * Product(others(dom, k))
              [] operation = 3 -> Product(dom) = target
              [] OTHER -> FALSE}

\* the cage the loop is at: fpuzz_grid[i]
Cage == fpuzz_grid[cage_i + 1]

\* csp, variables = binary_ne_grid(fpuzz_grid); cons = []
CagedStart ==
    /\ at = "start"
    /\ LET g == binary_ne_grid(fpuzz_grid[1][1])
           object(name) == CHOOSE k \in DOMAIN g.vars : g.vars[k] = name
       IN /\ objects' = [k \in DOMAIN g.vars |-> [name |-> g.vars[k], dom |-> g.dom[g.vars[k]]]]
          /\ var_array' = [row \in 1..fpuzz_grid[1][1] |->
                              [col \in 1..fpuzz_grid[1][1] |-> object(varName(row - 1, col - 1))]]
          /\ built' = [vars |-> [k \in DOMAIN g.vars |-> k],
                       cons |-> [n \in DOMAIN g.cons |->
                                    [name |-> g.cons[n].name,
                                     scope |-> [k \in DOMAIN g.cons[n].scope |-> object(g.cons[n].scope[k])],
                                     sat |-> g.cons[n].sat]]]
    /\ cage_cons' = <<>>
    /\ cage_i' = 1
    /\ at' = "cages"
    /\ UNCHANGED <<fpuzz_grid, propVars, edgeVars>>

\* if len(cage) == 2: the grid entry becomes a new Variable with domain [target]
CageCell ==
    /\ at = "cages" /\ cage_i < Len(fpuzz_grid)
    /\ Len(Cage) = 2
    /\ LET row == CellRow(Cage[1])
           col == CellCol(Cage[1])
           target == Cage[2]
       IN /\ objects' = Append(objects, [name |-> varName(row, col), dom |-> <<target>>])
          /\ var_array' = [var_array EXCEPT ![row + 1][col + 1] = Len(objects) + 1]
    /\ cage_i' = cage_i + 1
    /\ UNCHANGED <<fpuzz_grid, built, cage_cons, at, propVars, edgeVars>>

\* else: a Constraint "Cage i" over the grid's Variables of the cage's cells
CageOperation ==
    /\ at = "cages" /\ cage_i < Len(fpuzz_grid)
    /\ Len(Cage) # 2
    /\ LET operation == Cage[Len(Cage)]
           target == Cage[Len(Cage) - 1]
           cage_vars == [j \in 1..(Len(Cage) - 2) |->
                            var_array[CellRow(Cage[j]) + 1][CellCol(Cage[j]) + 1]]
           domain == [j \in DOMAIN cage_vars |-> objects[cage_vars[j]].dom]
           con == [name |-> "Cage " \o ToString(cage_i),
                   scope |-> cage_vars,
                   sat |-> cage_tuple(domain, target, operation)]
       IN cage_cons' = Append(cage_cons, con)
    /\ cage_i' = cage_i + 1
    /\ UNCHANGED <<fpuzz_grid, objects, var_array, built, at, propVars, edgeVars>>

\* the cage loop is over
CagesDone ==
    /\ at = "cages" /\ cage_i = Len(fpuzz_grid)
    /\ at' = "add"
    /\ UNCHANGED <<fpuzz_grid, objects, var_array, built, cage_cons, cage_i, propVars, edgeVars>>

\* for c in cons: csp.add_constraint(c); cage_cons is what is left of cons
AddConstraint ==
    /\ at = "add" /\ cage_cons # <<>>
    /\ built' = [built EXCEPT !.cons = Append(@, Head(cage_cons))]
    /\ cage_cons' = Tail(cage_cons)
    /\ UNCHANGED <<fpuzz_grid, objects, var_array, cage_i, at, propVars, edgeVars>>

\* return csp, variables
CagedReturn ==
    /\ at = "add" /\ cage_cons = <<>>
    /\ at' = "done"
    /\ UNCHANGED <<fpuzz_grid, objects, var_array, built, cage_cons, cage_i, propVars, edgeVars>>

CagedInit ==
    /\ csp = binary_ne_grid(GridSize)
    /\ Constructed
    /\ fpuzz_grid \in Puzzles
    /\ objects = <<>>
    /\ var_array = <<>>
    /\ built = [vars |-> <<>>, cons |-> <<>>]
    /\ cage_cons = <<>>
    /\ cage_i = 0
    /\ at = "start"
    /\ EdgeOff

CagedNext ==
    \/ CagedStart
    \/ CageCell
    \/ CageOperation
    \/ CagesDone
    \/ AddConstraint
    \/ CagedReturn

SpecCaged == CagedInit /\ [][CagedNext]_vars

----------------------------------------------------------------------------
(* C14 *)

\* C14: the grid and CSP that caged_csp_model returns hold one Variable per
\* cell: every grid Variable is in the CSP's variable list and is the object
\* that stands for its cell in the scopes of the constraints, and every scope
\* variable is in the CSP's variable list; also for cells named by a
\* (cell, target) cage.
C14_OneVariablePerCell ==
    at = "done" =>
        /\ \A row \in DOMAIN var_array : \A col \in DOMAIN var_array[row] :
               /\ var_array[row][col] \in Range(built.vars)
               /\ \A con \in Range(built.cons) : \A v \in Range(con.scope) :
                      objects[v].name = varName(row - 1, col - 1) => v = var_array[row][col]
        /\ \A con \in Range(built.cons) : Range(con.scope) \subseteq Range(built.vars)

----------------------------------------------------------------------------
(* A1/solution.py: edge_without_storage, the wall test of the Sokoban      *)
(* dead-end detection.  Positions are <<x, y>>, numbered from 0.           *)

MaxWidth == 3
MaxHeight == 3

\* boxes besides the tested one, and storage cells
MaxOthers == 1
MaxStorage == 2

Positions(width, height) == (0..(width - 1)) \X (0..(height - 1))

\* the subsets of S with at most n members
UpTo(S, n) == {T \in SUBSET S : Cardinality(T) <= n}

\* the boards: a box of the state's boxes, inside the grid like the storage
SokobanStates ==
    {[width |-> w, height |-> h, boxes |-> b, storage |-> st] :
        w \in 1..MaxWidth, h \in 1..MaxHeight,
        b \in UpTo(Positions(MaxWidth, MaxHeight), MaxOthers + 1),
        st \in UpTo(Positions(MaxWidth, MaxHeight), MaxStorage)}

InGrid(s) ==
    /\ s.boxes # {}
    /\ s.boxes \cup s.storage \subseteq Positions(s.width, s.height)

\* edge_without_storage(box, state): the storages no box stands on, their x
\* and y coordinates, and the four wall tests in the code's order
edge_without_storage(b, s) ==
    LET x == b[1]
        y == b[2]
        possible_storages == s.storage \ s.boxes
        x_list == {storage_pos[1] : storage_pos \in possible_storages}
        y_list == {storage_pos[2] : storage_pos \in possible_storages}
    IN IF x = 0 /\ 0 \notin x_list THEN TRUE
       ELSE IF x = s.width - 1 /\ (s.width - 1) \notin x_list THEN TRUE
       ELSE IF y = 0 /\ 0 \notin y_list THEN TRUE
       ELSE IF y = s.height - 1 /\ (s.width - 1) \notin y_list THEN TRUE
       ELSE FALSE

CallEdge ==
    /\ ~done
    /\ result' = edge_without_storage(box, state)
    /\ done' = TRUE
    /\ UNCHANGED <<state, box, propVars, cageVars>>

EdgeInit ==
    /\ csp = binary_ne_grid(GridSize)
    /\ Constructed
    /\ CompilerOff
    /\ state \in {s \in SokobanStates : InGrid(s)}
    /\ box \in state.boxes
    /\ result = FALSE
    /\ done = FALSE

EdgeNext == CallEdge

SpecEdge == EdgeInit /\ [][EdgeNext]_vars

----------------------------------------------------------------------------
(* C19 *)

\* the storage cells no box stands on
FreeStorage == state.storage \ state.boxes

\* the walls the box lies on
OnLeft == box[1] = 0
OnRight == box[1] = state.width - 1
OnTop == box[2] = 0
OnBottom == box[2] = state.height - 1

\* C19: for a box on exactly one wall edge_without_storage returns True
\* exactly when no free storage cell lies on that wall, for the wall
\* y = height - 1 just as for x = 0, x = width - 1 and y = 0, whatever the
\* width and height.
C19_WallsAlike ==
    done =>
        /\ (OnBottom /\ ~OnLeft /\ ~OnRight /\ ~OnTop) =>
               (result <=> ~\E p \in FreeStorage : p[2] = state.height - 1)
        /\ (OnTop /\ ~OnLeft /\ ~OnRight /\ ~OnBottom) =>
               (result <=> ~\E p \in FreeStorage : p[2] = 0)
        /\ (OnLeft /\ ~OnRight /\ ~OnTop /\ ~OnBottom) =>
               (result <=> ~\E p \in FreeStorage : p[1] = 0)
        /\ (OnRight /\ ~OnLeft /\ ~OnTop /\ ~OnBottom) =>
               (result <=> ~\E p \in FreeStorage : p[1] = state.width - 1)

====
